---------------------------- MODULE Spec2Model ----------------------------
(***************************************************************************)
(* Model of freezer.py, the builder of self-extracting Prefix executables. *)
(*                                                                         *)
(* Two specifications share the definitions below:                         *)
(*   Spec     the build() pipeline on an abstract file system: payload     *)
(*            tree assembly, manifest, archive member list, stub, output.  *)
(*   SpecAsm  assemble_exe on byte strings: the layout of the final file.  *)
(*                                                                         *)
(* Paths are sequences of components; an absolute path starts with the     *)
(* drive component DRIVE.  File contents in the pipeline are opaque        *)
(* strings; in SpecAsm files are sequences of bytes.                       *)
(***************************************************************************)
EXTENDS Integers, Sequences, FiniteSets, TLC

VARIABLES
    pc,             \* the statement of build() that runs next
    err,            \* the exception that ended build(), "" when none
    failed_in,      \* history: the step that raised it, "" when none
    folders_saw,    \* history: the storage copy_include_folders started on
    files,          \* local storage: absolute path -> content, regular files
    dirs,           \* local storage: the set of directories
    written,        \* history: every path a copy has written
    pre_exe,        \* the runtime installation args.pre_exe resolves to
    main_dest,      \* args.main_dest as a path ("." is the empty path)
    main_rel_path,  \* what copy_main returned, as components
    include,        \* args.include
    include_folder, \* args.include_folder
    zip,            \* the archive's members, in the order they were added
    stub_bytes,     \* the bytes of stub.exe
    payload_bytes,  \* the bytes of payload.zip
    out_bytes       \* the bytes of the output file

vars == <<pc, err, failed_in, folders_saw, files, dirs, written, pre_exe, main_dest, main_rel_path,
          include, include_folder, zip, stub_bytes, payload_bytes, out_bytes>>

---------------------------------------------------------------------------
(* Bounds of the model. *)

\* The longest list of --include mappings.
MaxIncludes == 1
\* The longest list of --include-folder mappings.
MaxFolders == 2
\* The longest stub drawn byte by byte.
MaxStub == 2
\* The longest archive drawn byte by byte.
MaxPayload == 2

---------------------------------------------------------------------------
(* Module constants, lines 33-36. *)

\* b"PREFIXSFX1"
MARKER == <<80, 82, 69, 70, 73, 88, 83, 70, 88, 49>>

\* footer layout: payload length (int64 LE) + SHA256 (32 bytes) + marker
FOOTER_LEN == Len(MARKER) + 8 + 32

MANIFEST_NAME == "__main_path.txt"

---------------------------------------------------------------------------
(* Byte strings. *)

RECURSIVE SeqsUpTo(_, _)
SeqsUpTo(S, n) ==
    IF n = 0 THEN {<<>>}
    ELSE LET shorter == SeqsUpTo(S, n - 1)
         IN  shorter \cup {Append(s, x) : s \in {t \in shorter : Len(t) = n - 1}, x \in S}

\* struct.pack("<Q", n): eight bytes, least significant first.
RECURSIVE PackLE(_, _)
PackLE(n, width) ==
    IF width = 0 THEN <<>> ELSE <<n % 256>> \o PackLE(n \div 256, width - 1)

\* A mistaken byte order: most significant first (">Q").
RECURSIVE PackBE(_, _)
PackBE(n, width) ==
    IF width = 0 THEN <<>> ELSE PackBE(n \div 256, width - 1) \o <<n % 256>>

struct_pack_Q_BE(n) == PackBE(n, 8)

struct_pack_Q(n) == PackLE(n, 8)

\* The sum of (m[j] + 1) * (i + j) over the bytes lo..hi of m, modulo 2^16,
\* by halves.
RECURSIVE Mix(_, _, _, _)
Mix(m, i, lo, hi) ==
    IF lo > hi THEN 0
    ELSE IF lo = hi THEN ((m[lo] + 1) * (i + lo)) % 65536
    ELSE LET mid == (lo + hi) \div 2
         IN  (Mix(m, i, lo, mid) + Mix(m, i, mid + 1, hi)) % 65536

\* hashlib.sha256(m).digest(): a library primitive, kept to its contract: 32
\* bytes, a function of every byte of m and of m's length.  The compression
\* function itself is not modelled.
sha256_digest(m) ==
    [i \in 1..32 |-> (Mix(m, i, 1, Len(m)) + 31 * Len(m) + 7 * i) % 256]

\* The output opened "ab" instead of "wb": an existing file is kept.
assemble_exe_append(stub, payload, prior) ==
    prior \o stub \o payload \o struct_pack_Q(Len(payload)) \o sha256_digest(payload)
          \o MARKER

\* assemble_exe: the bytes of the output file after the call.  `prior` is what
\* the output path held before; open("wb") truncates it.
assemble_exe(stub, payload, prior) ==
    LET payload_len == Len(payload)
        digest      == sha256_digest(payload)
        opened      == SubSeq(prior, 1, 0)
        copied      == opened \o stub
        with_zip    == copied \o payload
        with_len    == with_zip \o struct_pack_Q(payload_len)
        with_digest == with_len \o digest
    IN  with_digest \o MARKER

---------------------------------------------------------------------------
(* Paths (pathlib on Windows: build() runs only where os.name == "nt"). *)

DRIVE == "C:"

IsAbs(p) == Len(p) > 0 /\ p[1] = DRIVE

\* base / rel: an absolute right operand replaces the left one.
Join(base, rel) == IF IsAbs(rel) THEN rel ELSE base \o rel

IsPrefix(a, b) == Len(a) <= Len(b) /\ SubSeq(b, 1, Len(a)) = a

\* Every non-empty leading part of p, p itself included.
Prefixes(p) == {SubSeq(p, 1, k) : k \in 1..Len(p)}

Parent(p) == SubSeq(p, 1, Len(p) - 1)

\* The file the operating system opens for p: ".." steps to the parent.
\* pathlib keeps ".." components as they are, so this happens at each access.
RECURSIVE Resolve(_)
Resolve(p) ==
    IF p = <<>> THEN <<>>
    ELSE LET r == Resolve(Parent(p))
             c == p[Len(p)]
         IN  IF c = ".."
             THEN IF Len(r) <= 1 THEN r ELSE Parent(r)
             ELSE Append(r, c)

\* p.relative_to(base): lexical, no ".." is resolved; ValueError when base
\* does not lead p.
RelativeTo(p, base) ==
    IF IsPrefix(base, p)
    THEN [ok |-> TRUE, parts |-> SubSeq(p, Len(base) + 1, Len(p))]
    ELSE [ok |-> FALSE, parts |-> <<>>]

\* str(path) of a relative WindowsPath, as text tokens: components joined by
\* a backslash ("." for the empty path).
RECURSIVE StrPath(_)
StrPath(parts) ==
    IF parts = <<>> THEN <<".">>
    ELSE IF Len(parts) = 1 THEN <<parts[1]>>
    ELSE StrPath(Parent(parts)) \o <<"\\", parts[Len(parts)]>>

\* The scoped temporary directory of one build, and the payload tree in it.
tmpdir == <<DRIVE, "Temp", "tmpbuild">>

payload_root == tmpdir \o <<"payload">>

\* args.output, resolved.
output_path == <<DRIVE, "out", "app.exe">>

\* Whether the resolved path p lies in the payload tree.
InPayload(p) == IsPrefix(payload_root, p) /\ Len(p) > Len(payload_root)

---------------------------------------------------------------------------
(* Local storage.  st = [files, dirs, written, err]: the regular files with *)
(* their contents, the directories, the paths copies have written, and the  *)
(* exception raised ("" for none).                                          *)

Put(f, k, v) == [x \in (DOMAIN f) \cup {k} |-> IF x = k THEN v ELSE f[x]]

Raise(st, e) == [st EXCEPT !.err = e]

\* Path.mkdir(parents=True, exist_ok=True) / os.makedirs(exist_ok=True):
\* FileExistsError or NotADirectoryError when a regular file is in the way.
Makedirs(st, p) ==
    LET t == Resolve(p)
    IN  IF \E q \in Prefixes(t) : q \in DOMAIN st.files
        THEN Raise(st, "OSError")
        ELSE [st EXCEPT !.dirs = @ \cup Prefixes(t)]

\* shutil.copy2(src, p): writes the regular file p, replacing a file there;
\* fails when p is a directory or its directory is missing.
Copy2(st, content, p) ==
    LET t == Resolve(p)
    IN  IF t \in st.dirs \/ Parent(t) \notin st.dirs
        THEN Raise(st, "OSError")
        ELSE [st EXCEPT !.files = Put(@, t, content), !.written = @ \cup {t}]

\* A copy that keeps a file already at the destination (first write wins).
CopyTreeKeepExisting(st, tree, target) ==
    LET mk      == Makedirs(st, target)
        t       == Resolve(target)
        fresh   == {f \in DOMAIN tree.files : (t \o f) \notin DOMAIN mk.files}
    IN  IF mk.err # "" THEN mk
        ELSE [files   |-> [p \in (DOMAIN mk.files) \cup {t \o f : f \in fresh} |->
                              IF p \in DOMAIN mk.files THEN mk.files[p]
                              ELSE tree.files[SubSeq(p, Len(t) + 1, Len(p))]],
              dirs    |-> mk.dirs \cup {t \o d : d \in tree.dirs},
              written |-> mk.written \cup {t \o f : f \in fresh},
              err     |-> ""]

\* shutil.copytree(src, target, dirs_exist_ok=True).  tree = [files, dirs] with
\* paths relative to src.  The target and every source directory are made
\* with makedirs(exist_ok=True); every source file is copied with copy2 over
\* what is there.  A regular file where a directory is to be made, or a
\* directory where a file is to be written, is collected as an error: the
\* entries below it are skipped, the others are still copied, and the call
\* raises shutil.Error (an OSError) at its end.
CopyTree(st, tree, target) ==
    LET mk      == Makedirs(st, target)
        t       == Resolve(target)
        blocked == {d \in tree.dirs : \E q \in Prefixes(d) : (t \o q) \in DOMAIN mk.files}
        reached == {f \in DOMAIN tree.files :
                       \A q \in Prefixes(Parent(f)) : q \notin blocked}
        clash   == {f \in reached : (t \o f) \in mk.dirs}
        copied  == reached \ clash
    IN  IF mk.err # "" THEN mk
        ELSE [files   |-> [p \in (DOMAIN mk.files) \cup {t \o f : f \in copied} |->
                              IF IsPrefix(t, p) /\ SubSeq(p, Len(t) + 1, Len(p)) \in copied
                              THEN tree.files[SubSeq(p, Len(t) + 1, Len(p))]
                              ELSE mk.files[p]],
              dirs    |-> mk.dirs \cup {t \o d : d \in tree.dirs \ blocked},
              written |-> mk.written \cup {t \o f : f \in copied},
              err     |-> IF blocked # {} \/ clash # {} THEN "OSError" ELSE ""]

\* Path.write_text(text): writes the regular file p; fails on a directory.
WriteText(st, p, text) ==
    LET t == Resolve(p)
    IN  IF t \in st.dirs \/ Parent(t) \notin st.dirs
        THEN Raise(st, "OSError")
        ELSE [st EXCEPT !.files = Put(@, t, text)]

---------------------------------------------------------------------------
(* The host: what the command line can name.  Contents are token sequences. *)

MAIN_NAME == "main.x"

NoTree == [files |-> <<>>, dirs |-> {}]

\* Regular files of the host, by name.
HostFiles ==
    (MAIN_NAME :> <<"main script">>) @@ ("a.txt" :> <<"a">>)
    @@ (MANIFEST_NAME :> <<"planted">>) @@ ("app.exe" :> <<"older app">>)

\* Directories of the host, by name, each with its files (relative path ->
\* content) and its subdirectories.
HostDirs ==
    ("A" :> [files |-> (<<"x">> :> <<"A.x">>) @@ (<<"sub", "y">> :> <<"A.y">>),
             dirs  |-> {<<"sub">>}])
    @@ ("B" :> [files |-> (<<"x">> :> <<"B.x">>) @@ (<<"z">> :> <<"B.z">>),
                dirs  |-> {}])
    @@ ("C" :> [files |-> (<<"x", "y">> :> <<"C.xy">>),
                dirs  |-> {<<"x">>}])
    @@ ("assets" :> [files |-> (<<"x">> :> <<"assets.x">>),
                     dirs  |-> {}])

\* The runtime installations args.pre_exe can name: the sorted listing of the
\* directory that holds prefix.exe.  "absent" names no file.
FileEntry(name, content) ==
    [name |-> name, is_dir |-> FALSE, content |-> content, tree |-> NoTree]

DirEntry(name, tree) ==
    [name |-> name, is_dir |-> TRUE, content |-> <<>>, tree |-> tree]

RuntimeDir(installation) ==
    IF installation = "full"
    THEN << DirEntry(".git", [files |-> (<<"HEAD">> :> <<"ref">>), dirs |-> {}]),
            FileEntry(".gitignore", <<"ignore">>),
            DirEntry("ext", [files |-> (<<"e.py">> :> <<"ext module">>), dirs |-> {}]),
            DirEntry("lib", [files |-> (<<"core.pre">> :> <<"library">>), dirs |-> {}]),
            FileEntry("prefix.exe", <<"runtime">>) >>
    ELSE IF installation = "nolib"
    THEN << FileEntry("prefix.exe", <<"runtime">>) >>
    ELSE << >>

HasLib(installation) ==
    \E i \in 1..Len(RuntimeDir(installation)) :
        RuntimeDir(installation)[i].name = "lib" /\ RuntimeDir(installation)[i].is_dir

PreExeChoices == {"full", "nolib", "absent", "none"}

\* --main-dest: ".", a subdirectory, a parent, an absolute directory.
MainDestChoices == {<<>>, <<"scripts">>, <<"..">>, <<DRIVE, "out">>}

\* A "src;dest" mapping: sep is whether the text holds a ";", src the name of
\* the source, dest the destination ("." and "" are the empty path).
Mapping(sep, src, dest) == [sep |-> sep, src |-> src, dest |-> dest]

IncludeChoices ==
    { Mapping(TRUE, "a.txt", <<>>),
      Mapping(TRUE, MANIFEST_NAME, <<>>),
      Mapping(TRUE, "app.exe", <<"..", "..", "..", "out">>),
      Mapping(TRUE, "a.txt", <<DRIVE, "out">>),
      Mapping(FALSE, "a.txt", <<>>),
      Mapping(TRUE, "nope", <<>>),
      Mapping(TRUE, "A", <<>>) }

FolderChoices ==
    { Mapping(TRUE, "A", <<"assets">>),
      Mapping(TRUE, "B", <<"assets">>),
      Mapping(TRUE, "C", <<"assets">>),
      Mapping(TRUE, "assets", <<>>),
      Mapping(TRUE, "A", <<"..", "loot">>),
      Mapping(TRUE, "a.txt", <<"assets">>) }

---------------------------------------------------------------------------
(* The steps of build(). *)

\* parse_mapping: BuildError without ";" or for a source that does not exist.
parse_mapping(raw) ==
    IF ~raw.sep THEN [err |-> "BuildError", src |-> raw.src, dest |-> raw.dest]
    ELSE IF raw.src \notin (DOMAIN HostFiles) \cup (DOMAIN HostDirs)
    THEN [err |-> "BuildError", src |-> raw.src, dest |-> raw.dest]
    ELSE [err |-> "", src |-> raw.src, dest |-> raw.dest]

\* The entries of the runtime directory from the i-th on.
RECURSIVE CopyRuntimeEntries(_, _, _)
CopyRuntimeEntries(st, entries, i) ==
    IF i > Len(entries) \/ st.err # "" THEN st
    ELSE LET entry  == entries[i]
             target == payload_root \o <<entry.name>>
         IN  IF entry.name \in {".git", ".gitignore"}
             THEN CopyRuntimeEntries(st, entries, i + 1)
             ELSE IF entry.is_dir
             THEN CopyRuntimeEntries(CopyTree(st, entry.tree, target), entries, i + 1)
             ELSE CopyRuntimeEntries(Copy2(st, entry.content, target), entries, i + 1)

copy_pre_runtime(st, installation) ==
    IF installation = "absent" THEN Raise(st, "BuildError")
    ELSE CopyRuntimeEntries(st, RuntimeDir(installation), 1)

\* copy_main: [st, ret], ret the returned relative path as components.
copy_main(st, dest_rel) ==
    LET target_dir  == IF dest_rel = <<>> THEN payload_root
                       ELSE Join(payload_root, dest_rel)
        made        == Makedirs(st, target_dir)
        target_path == target_dir \o <<MAIN_NAME>>
        copied      == Copy2(made, HostFiles[MAIN_NAME], target_path)
        rel         == RelativeTo(target_path, payload_root)
    IN  IF made.err # "" THEN [st |-> made, ret |-> <<>>]
        ELSE IF copied.err # "" THEN [st |-> copied, ret |-> <<>>]
        ELSE IF ~rel.ok THEN [st |-> Raise(copied, "ValueError"), ret |-> <<>>]
        ELSE [st |-> copied, ret |-> rel.parts]

\* Lines 340-368: the .prex pointer file, best effort (an OSError is dropped).
\* Either a pointer file beside the main script is copied, or one is
\* generated that lists the .py files of the bundled ext/ directory.
pointer_file(st, beside_main) ==
    LET prex      == payload_root \o <<".prex">>
        ext_dir   == payload_root \o <<"ext">>
        py_names  == {"e.py"}
        listed    == {n \in py_names : (ext_dir \o <<n>>) \in DOMAIN st.files}
        generated == <<"ext", "\\", "e.py", "\n">>
        tried     == IF beside_main THEN Copy2(st, <<"pointer">>, prex)
                     ELSE IF ext_dir \in st.dirs /\ listed # {}
                     THEN WriteText(st, prex, generated)
                     ELSE st
    IN  IF tried.err # "" THEN st ELSE tried

\* copy_includes, from the i-th entry on.
RECURSIVE copy_includes(_, _, _)
copy_includes(st, includes, i) ==
    IF i > Len(includes) \/ st.err # "" THEN st
    ELSE LET m           == parse_mapping(includes[i])
             target_dir  == IF m.dest = <<>> THEN payload_root
                            ELSE Join(payload_root, m.dest)
             made        == Makedirs(st, target_dir)
             target_path == target_dir \o <<m.src>>
             rel         == RelativeTo(target_path, payload_root)
         IN  IF m.err # "" THEN Raise(st, m.err)
             ELSE IF m.src \notin DOMAIN HostFiles THEN Raise(st, "BuildError")
             ELSE IF made.err # "" THEN made
             ELSE IF ~rel.ok THEN Raise(made, "ValueError")
             ELSE copy_includes(Copy2(made, HostFiles[m.src], target_path),
                                includes, i + 1)

\* The directory a folder mapping is copied to: "." places the folder under
\* the bundle root by its own name.
FolderTarget(m) ==
    IF m.dest = <<>> THEN payload_root \o <<m.src>>
    ELSE Join(payload_root, m.dest)

\* copy_include_folders, from the i-th entry on.
RECURSIVE copy_include_folders(_, _, _)
copy_include_folders(st, folders, i) ==
    IF i > Len(folders) \/ st.err # "" THEN st
    ELSE LET m          == parse_mapping(folders[i])
             target_dir == FolderTarget(m)
             rel        == RelativeTo(target_dir, payload_root)
         IN  IF m.err # "" THEN Raise(st, m.err)
             ELSE IF m.src \notin DOMAIN HostDirs THEN Raise(st, "BuildError")
             ELSE IF ~rel.ok THEN Raise(st, "ValueError")
             ELSE copy_include_folders(CopyTree(st, HostDirs[m.src], target_dir),
                                       folders, i + 1)

\* write_manifest: the text handed to write_text.
write_manifest(st, main_rel) ==
    WriteText(st, payload_root \o <<MANIFEST_NAME>>, StrPath(main_rel) \o <<"\n">>)

\* A set as a sequence, in an order of TLC's choosing.
RECURSIVE SetToSeq(_)
SetToSeq(S) ==
    IF S = {} THEN <<>>
    ELSE LET x == CHOOSE y \in S : TRUE IN <<x>> \o SetToSeq(S \ {x})

\* payload_root.rglob("*"): every file and directory below the root.
rglob(st) ==
    SetToSeq({p \in (DOMAIN st.files) \cup st.dirs : InPayload(p)})

Member(st, fs_path) ==
    [arcname |-> RelativeTo(fs_path, payload_root).parts, data |-> st.files[fs_path]]

\* The walk without the is_dir() test: directories become members too.
RECURSIVE zip_walk_dirs(_, _, _)
zip_walk_dirs(st, found, i) ==
    IF i > Len(found) THEN <<>>
    ELSE <<[arcname |-> RelativeTo(found[i], payload_root).parts,
            data    |-> IF found[i] \in st.dirs THEN <<>> ELSE st.files[found[i]]]>>
         \o zip_walk_dirs(st, found, i + 1)

\* The loop of build_payload_zip over what rglob found, from the i-th on.
RECURSIVE zip_walk(_, _, _)
zip_walk(st, found, i) ==
    IF i > Len(found) THEN <<>>
    ELSE IF found[i] \in st.dirs THEN zip_walk(st, found, i + 1)
    ELSE <<Member(st, found[i])>> \o zip_walk(st, found, i + 1)

\* build_payload_zip: the members of the archive it writes.
build_payload_zip(st) == zip_walk(st, rglob(st), 1)

---------------------------------------------------------------------------
(* The state machine. *)

St == [files |-> files, dirs |-> dirs, written |-> written, err |-> ""]

\* Leaving the `with tempfile.TemporaryDirectory()` block removes the
\* temporary directory and everything in it.
Cleanup(st) ==
    [st EXCEPT !.files = [p \in {q \in DOMAIN st.files : ~IsPrefix(tmpdir, q)} |-> st.files[p]],
               !.dirs  = {d \in st.dirs : ~IsPrefix(tmpdir, d)}]

\* The storage after a step inside the with block: on an exception the block
\* is left and build() ends.
Land(st, next_pc) ==
    LET after == IF st.err = "" THEN st ELSE Cleanup(st)
    IN  /\ files' = after.files
        /\ dirs' = after.dirs
        /\ written' = after.written
        /\ err' = after.err
        /\ failed_in' = IF after.err = "" THEN failed_in ELSE pc
        /\ pc' = IF after.err = "" THEN next_pc ELSE "failed"

\* The bytes csc.exe and zipfile produce are opaque here; SpecAsm draws them
\* from wider sets.
BuiltStub == <<77, 90>>

BuiltArchive == <<80, 75>>

\* The state after parse_args: the arguments are drawn, nothing has run.
Init ==
    /\ pc = "start"
    /\ err = ""
    /\ failed_in = ""
    /\ folders_saw = NoTree
    /\ files = <<>>
    /\ dirs = {<<DRIVE>>, <<DRIVE, "Temp">>}
    /\ written = {}
    /\ pre_exe \in PreExeChoices
    /\ main_dest \in MainDestChoices
    /\ main_rel_path = <<>>
    /\ include \in SeqsUpTo(IncludeChoices, MaxIncludes)
    /\ include_folder \in SeqsUpTo(FolderChoices, MaxFolders)
    /\ zip = <<>>
    /\ stub_bytes = <<>>
    /\ payload_bytes = <<>>
    /\ out_bytes = <<>>

\* Lines 301-325: ensure_windows, the runtime looked up on PATH when it is not
\* given, the main script checked, the temporary directory and the payload
\* root made.
Start ==
    /\ pc = "start"
    /\ \E os_name \in {"nt", "posix"}, on_path \in BOOLEAN, main_exists \in BOOLEAN :
         LET e == IF os_name # "nt" THEN "BuildError"
                  ELSE IF pre_exe = "none" /\ ~on_path THEN "BuildError"
                  ELSE IF ~main_exists THEN "BuildError"
                  ELSE ""
         IN  /\ err' = e
             /\ failed_in' = IF e = "" THEN failed_in ELSE pc
             /\ pc' = IF e = "" THEN "copy_pre_runtime" ELSE "failed"
             /\ pre_exe' = IF os_name = "nt" /\ pre_exe = "none" /\ on_path
                           THEN "full" ELSE pre_exe
             /\ dirs' = IF e = "" THEN dirs \cup Prefixes(payload_root) ELSE dirs
    /\ UNCHANGED <<folders_saw, files, written, main_dest, main_rel_path, include, include_folder,
                   zip, stub_bytes, payload_bytes, out_bytes>>

\* Line 328.
CopyPreRuntime ==
    /\ pc = "copy_pre_runtime"
    /\ Land(copy_pre_runtime(St, pre_exe), "copy_main")
    /\ UNCHANGED <<folders_saw, pre_exe, main_dest, main_rel_path, include, include_folder,
                   zip, stub_bytes, payload_bytes, out_bytes>>

\* Lines 331-368: copy_main, then the pointer file.
CopyMain ==
    /\ pc = "copy_main"
    /\ \E beside_main \in BOOLEAN :
         LET r == copy_main(St, main_dest)
         IN  /\ Land(IF r.st.err = "" THEN pointer_file(r.st, beside_main) ELSE r.st,
                     "copy_includes")
             /\ main_rel_path' = r.ret
    /\ UNCHANGED <<folders_saw, pre_exe, main_dest, include, include_folder,
                   zip, stub_bytes, payload_bytes, out_bytes>>

\* Lines 370-372.
CopyIncludes ==
    /\ pc = "copy_includes"
    /\ Land(copy_includes(St, include, 1), "copy_include_folders")
    /\ UNCHANGED <<folders_saw, pre_exe, main_dest, main_rel_path, include, include_folder,
                   zip, stub_bytes, payload_bytes, out_bytes>>

\* Lines 374-376.
CopyIncludeFolders ==
    /\ pc = "copy_include_folders"
    /\ Land(copy_include_folders(St, include_folder, 1), "write_manifest")
    /\ folders_saw' = [files |-> files, dirs |-> dirs]
    /\ UNCHANGED <<pre_exe, main_dest, main_rel_path, include, include_folder,
                   zip, stub_bytes, payload_bytes, out_bytes>>

\* Line 378.
WriteManifest ==
    /\ pc = "write_manifest"
    /\ Land(write_manifest(St, main_rel_path), "build_payload_zip")
    /\ UNCHANGED <<folders_saw, pre_exe, main_dest, main_rel_path, include, include_folder,
                   zip, stub_bytes, payload_bytes, out_bytes>>

\* Lines 380-381: the archive is written beside the payload root.
BuildPayloadZip ==
    /\ pc = "build_payload_zip"
    /\ zip' = build_payload_zip(St)
    /\ payload_bytes' = BuiltArchive
    /\ Land(WriteText(St, tmpdir \o <<"payload.zip">>, <<"archive">>), "compile_stub")
    /\ UNCHANGED <<folders_saw, pre_exe, main_dest, main_rel_path, include, include_folder,
                   stub_bytes, out_bytes>>

\* Lines 384-387: convert_image_to_ico when an icon is given, then
\* compile_stub.  Both run external tools in the temporary directory; a
\* missing icon, a missing compiler or a failed run is a BuildError.
CompileStub ==
    /\ pc = "compile_stub"
    /\ \E outcome \in {"compiled", "icon failed", "no csc", "csc failed"} :
         IF outcome = "compiled"
         THEN /\ Land(WriteText(St, tmpdir \o <<"stub.exe">>, <<"stub">>), "assemble_exe")
              /\ stub_bytes' = BuiltStub
         ELSE /\ Land(Raise(St, "BuildError"), "assemble_exe")
              /\ stub_bytes' = stub_bytes
    /\ UNCHANGED <<folders_saw, pre_exe, main_dest, main_rel_path, include, include_folder,
                   zip, payload_bytes, out_bytes>>

\* Lines 388-391: the output's directory is made, assemble_exe writes the
\* output, the with block is left.
AssembleExe ==
    /\ pc = "assemble_exe"
    /\ LET made == Makedirs(St, Parent(output_path))
           bad  == made.err # "" \/ output_path \in made.dirs
       IN  IF bad
           THEN /\ Land(Raise(made, "OSError"), "done")
                /\ out_bytes' = out_bytes
           ELSE /\ Land(Cleanup([made EXCEPT !.files = Put(@, output_path, <<"sfx">>)]),
                        "done")
                /\ out_bytes' = assemble_exe(stub_bytes, payload_bytes, out_bytes)
    /\ UNCHANGED <<folders_saw, pre_exe, main_dest, main_rel_path, include, include_folder,
                   zip, stub_bytes, payload_bytes>>

Next ==
    \/ Start
    \/ CopyPreRuntime
    \/ CopyMain
    \/ CopyIncludes
    \/ CopyIncludeFolders
    \/ WriteManifest
    \/ BuildPayloadZip
    \/ CompileStub
    \/ AssembleExe

Spec == Init /\ [][Next]_vars

---------------------------------------------------------------------------
(* assemble_exe on byte strings: the stub and the archive are any bytes, the *)
(* output path holds nothing or an older file.                              *)

ByteSamples == {0, 49, 255}

\* An archive long enough for the length field's second byte.
LongArchive == [i \in 1..258 |-> (7 * i) % 256]

InitAsm ==
    /\ pc = "assemble_exe"
    /\ err = ""
    /\ failed_in = ""
    /\ folders_saw = NoTree
    /\ stub_bytes \in SeqsUpTo(ByteSamples, MaxStub)
    /\ payload_bytes \in SeqsUpTo(ByteSamples, MaxPayload) \cup {LongArchive}
    /\ out_bytes \in {<<>>, <<1, 2, 3>>}
    /\ files = (tmpdir \o <<"stub.exe">> :> <<"stub">>)
               @@ (tmpdir \o <<"payload.zip">> :> <<"archive">>)
               @@ (IF out_bytes = <<>> THEN <<>> ELSE output_path :> <<"older output">>)
    /\ dirs = Prefixes(payload_root) \cup Prefixes(Parent(output_path))
    /\ written = {}
    /\ pre_exe = "full"
    /\ main_dest = <<>>
    /\ main_rel_path = <<MAIN_NAME>>
    /\ include = <<>>
    /\ include_folder = <<>>
    /\ zip = <<>>

NextAsm == AssembleExe

SpecAsm == InitAsm /\ [][NextAsm]_vars

---------------------------------------------------------------------------
(* Reading a bundle from its end, as the claims about the layout do. *)

Slice(s, from, n) == SubSeq(s, from, from + n - 1)

\* The eight bytes of n, least significant first, for 0 <= n < 2^31.
LittleEndian64(n) ==
    [i \in 1..8 |-> IF i <= 4 THEN (n \div 256 ^ (i - 1)) % 256 ELSE 0]

\* The value of an 8-byte little-endian field.  Every file here is far
\* shorter than 2^24 bytes, so a field with a higher byte set reads as 2^24.
UnpackLE64(b) ==
    IF \E i \in 4..8 : b[i] # 0 THEN 256 * 256 * 256
    ELSE b[1] + 256 * b[2] + 256 * 256 * b[3]

\* The shape of the footer of file f built from stub s and archive p: its
\* marker and the width of what stands between the length and the marker.
FooterShape(f, s, p) ==
    [marker     |-> Slice(f, Len(f) - Len(MARKER) + 1, Len(MARKER)),
     digest_len |-> Len(f) - Len(s) - Len(p) - 8 - Len(MARKER)]

\* Every footer shape assemble_exe writes, over the inputs of SpecAsm.
FooterShapes ==
    {FooterShape(assemble_exe(s, p, <<>>), s, p) :
        s \in SeqsUpTo(ByteSamples, MaxStub), p \in SeqsUpTo(ByteSamples, MaxPayload)}

---------------------------------------------------------------------------
(* The claims. *)

\* C1: the file assemble_exe writes is exactly the stub, the archive, the
\* archive's length as 8 little-endian bytes, the SHA-256 digest of the
\* archive and the marker, in this order, with nothing before, between or
\* after (an older file at the output path leaves no byte).
C1_Layout ==
    pc = "done" =>
        LET S == stub_bytes
            P == payload_bytes
            F == out_bytes
        IN  /\ Len(F) = Len(S) + Len(P) + 8 + 32 + Len(MARKER)
            /\ Slice(F, 1, Len(S)) = S
            /\ Slice(F, Len(S) + 1, Len(P)) = P
            /\ Slice(F, Len(S) + Len(P) + 1, 8) = LittleEndian64(Len(P))
            /\ Slice(F, Len(S) + Len(P) + 9, 32) = sha256_digest(P)
            /\ Slice(F, Len(S) + Len(P) + 41, Len(MARKER)) = MARKER

C1_Witness ==
    /\ pc = "done"
    /\ stub_bytes = <<49, 255>>
    /\ payload_bytes = LongArchive
    /\ output_path \in DOMAIN files

\* C2: read from its end, the file gives back its footer whatever the
\* launcher's length: the last bytes are the marker, the footer is FOOTER_LEN
\* bytes, the decoded length plus FOOTER_LEN fits the file, and the start
\* offset is >= 0, is the launcher's length, and leads to the archive bytes.
C2_FooterRecovered ==
    pc = "done" =>
        LET F              == out_bytes
            size           == Len(F)
            payload_length == UnpackLE64(Slice(F, size - FOOTER_LEN + 1, 8))
            start          == size - FOOTER_LEN - payload_length
        IN  /\ size = Len(stub_bytes) + Len(payload_bytes) + FOOTER_LEN
            /\ Slice(F, size - Len(MARKER) + 1, Len(MARKER)) = MARKER
            /\ payload_length + FOOTER_LEN <= size
            /\ start >= 0
            /\ start = Len(stub_bytes)
            /\ Slice(F, start + 1, payload_length) = payload_bytes

C2_Witness ==
    /\ pc = "done"
    /\ stub_bytes = <<>>
    /\ payload_bytes = LongArchive
    /\ Len(out_bytes) = 258 + FOOTER_LEN

\* C3: two footer versions are supported and told apart by their marker: a
\* minimal one (length, marker) and an extended one (length, digest, marker);
\* the marker written with a digest is not the marker of a footer without one.
C3_TwoFooterVersions ==
    pc = "done" =>
        LET mine == FooterShape(out_bytes, stub_bytes, payload_bytes)
        IN  /\ mine.digest_len \in {0, 32}
            /\ \E other \in FooterShapes :
                  /\ other.digest_len \in {0, 32}
                  /\ other.digest_len # mine.digest_len
                  /\ other.marker # mine.marker

\* C4: every file copy_main, copy_includes and copy_include_folders write
\* lands inside the payload root.
C4_WritesContained == \A p \in written : InPayload(p)

\* Whether a destination is "." or a subdirectory of the bundle.
IsSubdirectory(dest) == ~IsAbs(dest) /\ \A i \in 1..Len(dest) : dest[i] # ".."

RECURSIVE SlashPath(_)
SlashPath(parts) ==
    IF Len(parts) = 1 THEN <<parts[1]>>
    ELSE SlashPath(Parent(parts)) \o <<"/", parts[Len(parts)]>>

\* C5: after a successful build the manifest in the archive holds exactly the
\* entry script's tree-relative path and a newline: the file name for
\* destination ".", "<dest>/<file name>" with a forward slash otherwise.
C5_ManifestText ==
    (pc = "done" /\ err = "" /\ IsSubdirectory(main_dest)) =>
        \E i \in 1..Len(zip) :
            /\ zip[i].arcname = <<MANIFEST_NAME>>
            /\ zip[i].data = SlashPath(main_dest \o <<MAIN_NAME>>) \o <<"\n">>

\* C6: when the archive has been built, the path the manifest records names
\* a regular file inside the payload tree.
C6_ManifestTargetInTree ==
    pc = "compile_stub" =>
        LET target == Resolve(payload_root \o main_rel_path)
        IN  target \in DOMAIN files /\ InPayload(target)

\* C7: when build fails, the output file has been neither created nor
\* modified (no file is at the output path when build starts).
C7_NoOutputOnFailure == pc = "failed" => output_path \notin DOMAIN files

\* C8: copy_pre_runtime returns normally only for a runtime directory that
\* has lib/; without it the build fails with a BuildError.
C8_LibRequired == pc = "copy_main" => HasLib(pre_exe)

\* The folder mappings all name directories and relative destinations.
ValidFolders ==
    \A i \in 1..Len(include_folder) :
        /\ parse_mapping(include_folder[i]).err = ""
        /\ include_folder[i].src \in DOMAIN HostDirs
        /\ ~IsAbs(include_folder[i].dest)

FolderDir(i) == Resolve(FolderTarget(include_folder[i]))

FolderTree(i) == HostDirs[include_folder[i].src]

\* Two of the folder mappings resolve to the same destination directory.
SharedDestination ==
    \E i, j \in 1..Len(include_folder) : i < j /\ FolderDir(i) = FolderDir(j)

\* Every file of every mapping is at its destination with the bytes of the
\* last mapping that puts a file there.
MergedLastWins ==
    \A i \in 1..Len(include_folder) : \A f \in DOMAIN FolderTree(i).files :
        LET at     == FolderDir(i) \o f
            givers == {j \in 1..Len(include_folder) :
                          \E g \in DOMAIN FolderTree(j).files : FolderDir(j) \o g = at}
            last   == CHOOSE j \in givers : \A k \in givers : k <= j
            g      == CHOOSE h \in DOMAIN FolderTree(last).files : FolderDir(last) \o h = at
        IN  at \in DOMAIN files /\ files[at] = FolderTree(last).files[g]

\* The paths mapping i needs as directories, and those it writes as files.
NeedsDir(i) == Prefixes(FolderDir(i)) \cup {FolderDir(i) \o d : d \in FolderTree(i).dirs}

NeedsFile(i) == {FolderDir(i) \o f : f \in DOMAIN FolderTree(i).files}

\* Some path is a regular file on one side and a directory on the other:
\* between a mapping and the tree copy_include_folders started on, or
\* between two mappings.
KindConflict ==
    \E i \in 1..Len(include_folder) :
        \/ NeedsDir(i) \cap DOMAIN folders_saw.files # {}
        \/ NeedsFile(i) \cap folders_saw.dirs # {}
        \/ \E j \in 1..Len(include_folder) :
              j # i /\ NeedsDir(i) \cap NeedsFile(j) # {}

\* copy_include_folders has run: it returned, or it raised.
FoldersRan == pc = "write_manifest" \/ failed_in = "copy_include_folders"

C10_MembersAreTreeFiles ==
    pc = "compile_stub" =>
        LET tree_files == {p \in DOMAIN files : InPayload(p)}
        IN  /\ Len(zip) = Cardinality(tree_files)
            /\ \A p \in tree_files : \E i \in 1..Len(zip) :
                  /\ payload_root \o zip[i].arcname = p
                  /\ zip[i].data = files[p]
            /\ \A i \in 1..Len(zip) : (payload_root \o zip[i].arcname) \in tree_files
            /\ \A i, j \in 1..Len(zip) : zip[i].arcname = zip[j].arcname => i = j

C10_Witness ==
    /\ pc = "compile_stub"
    /\ payload_root \o <<"lib">> \in dirs
    /\ payload_root \o <<"assets", "sub">> \in dirs
    /\ \E i \in 1..Len(zip) : zip[i].arcname = <<"assets", "sub", "y">>
    /\ \E i \in 1..Len(zip) : zip[i].arcname = <<".prex">>
    /\ Len(zip) >= 6

===========================================================================
